---- MODULE Spec2Model ----
(***************************************************************************)
(* Model of src/components/clusterprovider/google/google.ts: the adapter   *)
(* that shells out to the gcloud / az command lines.  Every exported       *)
(* operation is a small sequential async function; its suspension points   *)
(* (await shell.exec, await sleep) are the boundaries between the actions  *)
(* below.  The shell and the timer are the environment: a command that is  *)
(* outstanding completes with any result of its domain, a pending timer    *)
(* fires.                                                                  *)
(***************************************************************************)
EXTENDS Integers, Sequences, FiniteSets, TLC

VARIABLES
    op,          \* the operation that was called ("none" before the call)
    pc,          \* position inside the running operation
    args,        \* the call's arguments
    attempts,    \* getCredentials: let attempts
    sr,          \* the shell result most recently received (const sr)
    login,       \* getClusterList / createCluster: const login
    outstanding, \* subprocesses started and not yet completed
    timers,      \* timers started and not yet fired
    calls,       \* every command handed to shell.exec, in order
    outcomes,    \* every shell result received, in order
    sleepLog,    \* the duration of every sleep / wait started, in order
    ret          \* how the call completed

vars == <<op, pc, args, attempts, sr, login, outstanding, timers, calls,
          outcomes, sleepLog, ret>>

----------------------------------------------------------------------------
(* Bounds of the model *)

MaxAttemptsArg == 5
MaxVMs == 2
MaxLocations == 2
MaxRegionList == 1

(* Program constants *)

ConfigureMaxAttempts == 5
RetrySleepMs == 15000
WaitForClusterMs == 300000

----------------------------------------------------------------------------
(* Values *)

\* A JavaScript undefined (a property that is absent).
Undefined == "undefined"

\* r[f], reading an absent property as undefined.
Prop(r, f) == IF f \in DOMAIN r THEN r[f] ELSE Undefined

NoOut == [kind |-> "none", items |-> <<>>]
Garbage == [kind |-> "garbage", items |-> <<>>]
NotArray == [kind |-> "notArray", items |-> <<>>]
JsonArray(xs) == [kind |-> "array", items |-> xs]

\* shell.exec resolving to undefined: the subprocess could not be invoked.
Absent == [present |-> FALSE, code |-> 0, stderr |-> "", stdout |-> NoOut]

Codes == {0, 1}
Stderrs == {"", "e1", "e2"}

ShellResults(stdouts) ==
    {Absent} \cup [present : {TRUE}, code : Codes, stderr : Stderrs, stdout : stdouts]

\* What a get-credentials attempt can produce: no result at all, a clean exit,
\* exit code 0 with a warning on stderr, and failures with and without text.
CredentialResults ==
    {Absent} \cup
    {[present |-> TRUE, code |-> c[1], stderr |-> c[2], stdout |-> NoOut] :
        c \in {<<0, "">>, <<0, "e1">>, <<1, "">>, <<1, "e1">>, <<1, "e2">>}}

SeqsUpTo(S, n) == UNION {[1..k -> S] : k \in 0..n}

\* A string whose characters the code inspects is a sequence of characters.
Str_Basic_ == <<"B", "a", "s", "i", "c", "_">>
VMNames ==
    { <<"B", "a", "s", "i", "c", "_", "A", "0">>,
      <<"B", "a", "s", "i", "c", "_">>,
      <<"B", "a", "s", "i", "c">>,
      <<"b", "a", "s", "i", "c", "_", "A">>,
      <<"S", "_", "B", "a", "s", "i", "c", "_">>,
      <<"D", "2">> }
VMEntries ==
    [hasName : {TRUE}, name : VMNames] \cup {[hasName |-> FALSE, name |-> <<>>]}
VMStdouts == {Garbage, NotArray} \cup {JsonArray(xs) : xs \in SeqsUpTo(VMEntries, MaxVMs)}

LocationEntries ==
    { [name |-> "eastus", displayName |-> "East US"],
      [name |-> "eastus", displayName |-> "Virginia"],
      [name |-> "westus", displayName |-> "West US"],
      [name |-> "mars", displayName |-> "Mars"] }
LocationResponses == SeqsUpTo(LocationEntries, MaxLocations)
LocationStdouts == {Garbage, NotArray} \cup {JsonArray(xs) : xs \in LocationResponses}

ProjectStdouts == {Garbage, JsonArray(<<>>), JsonArray(<<"p1", "p2">>)}
ClusterStdouts ==
    {Garbage, JsonArray(<<>>),
     JsonArray(<<[name |-> "c1", resourceGroup |-> "rg1"]>>)}

RegionNames == {"eastus", "westus", "mars"}

\* The fetched entries locationDisplayNamesEx is tried on.
SampleResponses ==
    { <<>>,
      <<[name |-> "eastus", displayName |-> "East US"]>>,
      <<[name |-> "eastus", displayName |-> "East US"],
        [name |-> "westus", displayName |-> "West US"]>>,
      <<[name |-> "eastus", displayName |-> "East US"],
        [name |-> "eastus", displayName |-> "Virginia"]>> }

NoArgs ==
    [maxAttempts |-> 0, clusterType |-> "", hasMetadata |-> FALSE,
     production |-> <<>>, preview |-> <<>>, response |-> <<>>]

NoRet == [status |-> "none", value |-> <<>>]
Returned(v) == [status |-> "returned", value |-> v]
Threw == [status |-> "threw", value |-> "TypeError"]

----------------------------------------------------------------------------
(* The helpers of ../../../wizard and ../../../errorable *)

failed(e) == ~e.succeeded

Failure(msg, detail) ==
    [succeeded |-> FALSE, error |-> [message |-> msg, detail |-> detail]]

fromShellExitCodeAndStandardError(s, msg) ==
    IF ~s.present THEN Failure(msg, "")
    ELSE IF s.code = 0 /\ s.stderr = ""
         THEN [succeeded |-> TRUE, result |-> [value |-> s.stderr]]
         ELSE Failure(msg, s.stderr)

fromShellExitCodeOnly(s, msg) ==
    IF ~s.present THEN Failure(msg, "")
    ELSE IF s.code = 0
         THEN [succeeded |-> TRUE, result |-> [value |-> s.stderr]]
         ELSE Failure(msg, s.stderr)

\* processed is what the processor makes of the parsed output (it is looked
\* at only once the exit is clean and the output has parsed):
\* [ok |-> TRUE, value |-> v], or [ok |-> FALSE, ...] when the output does not
\* have the expected shape.
fromShellJson(s, msg, processed) ==
    IF ~s.present THEN Failure(msg, "")
    ELSE IF s.code = 0 /\ s.stderr = ""
         THEN IF s.stdout.kind = "garbage"
              THEN Failure(msg, "")
              ELSE IF processed.ok
                   THEN [succeeded |-> TRUE, result |-> processed.value]
                   ELSE Failure(msg, "")
         ELSE Failure(msg, s.stderr)

\* fromShellJson without a processor: the parsed value as it is.
rawJson(out) == [ok |-> TRUE, value |-> out.items]

----------------------------------------------------------------------------
(* Pure functions of google.ts *)

startsWith(s, prefix) ==
    /\ Len(s) >= Len(prefix)
    /\ SubSeq(s, 1, Len(prefix)) = prefix

RECURSIVE mapNames(_)
mapNames(response) ==
    IF Len(response) = 0 THEN <<>>
    ELSE <<Head(response).name>> \o mapNames(Tail(response))

RECURSIVE filterNotBasic(_)
filterNotBasic(names) ==
    IF Len(names) = 0 THEN <<>>
    ELSE (IF ~startsWith(Head(names), Str_Basic_) THEN <<Head(names)>> ELSE <<>>)
         \o filterNotBasic(Tail(names))

IsInfixAt(s, prefix, i) ==
    /\ i + Len(prefix) - 1 <= Len(s)
    /\ SubSeq(s, i, i + Len(prefix) - 1) = prefix

RECURSIVE filterNotIncludesBasic(_)
filterNotIncludesBasic(names) ==
    IF Len(names) = 0 THEN <<>>
    ELSE (IF \E i \in 1..Len(Head(names)) : IsInfixAt(Head(names), Str_Basic_, i)
          THEN <<>> ELSE <<Head(names)>>)
         \o filterNotIncludesBasic(Tail(names))

\* The mutant of vmSizesProcessor: includes('Basic_') in place of startsWith.
vmSizesProcessor_Includes(out) ==
    IF out.kind # "array" THEN [ok |-> FALSE, value |-> <<>>]
    ELSE IF \E i \in 1..Len(out.items) : ~out.items[i].hasName
         THEN [ok |-> FALSE, value |-> <<>>]
         ELSE [ok |-> TRUE, value |-> filterNotIncludesBasic(mapNames(out.items))]

\* response.map(r => r.name).filter(name => !name.startsWith('Basic_')):
\* response.map is no function when the value is no array, and
\* name.startsWith raises a TypeError on an entry without a name.
vmSizesProcessor(out) ==
    IF out.kind # "array" THEN [ok |-> FALSE, value |-> <<>>]
    ELSE IF \E i \in 1..Len(out.items) : ~out.items[i].hasName
         THEN [ok |-> FALSE, value |-> <<>>]
         ELSE [ok |-> TRUE, value |-> filterNotBasic(mapNames(out.items))]

EmptyDictionary == [n \in {} |-> ""]

RECURSIVE buildLocations(_, _)
buildLocations(response, locations) ==
    IF Len(response) = 0 THEN locations
    ELSE LET r == Head(response)
         IN  buildLocations(Tail(response),
                 [n \in DOMAIN locations \cup {r.name} |->
                     IF n = r.name THEN r.displayName ELSE locations[n]])

\* for (const r of response) locations[r.name] = r.displayName
locationsProcessor(out) ==
    IF out.kind # "array" THEN [ok |-> FALSE, value |-> <<>>]
    ELSE [ok |-> TRUE, value |-> [locations |-> buildLocations(out.items, EmptyDictionary)]]

lookup(locationInfo, n) ==
    IF n \in DOMAIN locationInfo.locations THEN locationInfo.locations[n] ELSE Undefined

RECURSIVE knownOnly(_, _)
knownOnly(names, locationInfo) ==
    IF Len(names) = 0 THEN <<>>
    ELSE (IF Head(names) \in DOMAIN locationInfo.locations THEN <<Head(names)>> ELSE <<>>)
         \o knownOnly(Tail(names), locationInfo)

\* The mutant of locationDisplayNames: identifiers without a display name dropped.
locationDisplayNames_KnownOnly(names, preview, locationInfo) ==
    LET known == knownOnly(names, locationInfo)
    IN  [i \in 1..Len(known) |->
            [displayName |-> lookup(locationInfo, known[i]), isPreview |-> preview]]

locationDisplayNames(names, preview, locationInfo) ==
    [i \in 1..Len(names) |->
        [displayName |-> lookup(locationInfo, names[i]), isPreview |-> preview]]

locationDisplayNamesEx(production, preview, locationInfo) ==
    locationDisplayNames(production, FALSE, locationInfo)
        \o locationDisplayNames(preview, TRUE, locationInfo)

productionRegions ==
    << "australiaeast", "australiasoutheast", "canadacentral", "canadaeast",
       "centralindia", "centralus", "eastasia", "eastus", "eastus2",
       "francecentral", "japaneast", "northeurope", "southeastasia",
       "southindia", "uksouth", "ukwest", "westeurope", "westus", "westus2" >>

\* The mutant of setProjectAsyncResult: the exit code alone decides.
setProjectAsyncResult_ExitCodeOnly(s) ==
    fromShellExitCodeOnly(s, "Unable to set gcloud CLI project")

setProjectAsyncResult(s) ==
    fromShellExitCodeAndStandardError(s, "Unable to set gcloud CLI project")

listGkeLocationsResult(s) ==
    LET locationInfo == fromShellJson(s, "Unable to list Google regions",
                                      locationsProcessor(s.stdout))
    IN  IF failed(locationInfo)
        THEN [succeeded |-> FALSE, error |-> locationInfo.error]
        ELSE [succeeded |-> TRUE,
              result |-> locationDisplayNamesEx(productionRegions, <<>>, locationInfo.result)]

\* The mutant of shellSucceeded: standard error is not looked at.
shellSucceeded_ExitCodeOnly(s) == s.present /\ s.code = 0

\* sr && sr.code === 0 && !sr.stderr
shellSucceeded(s) == s.present /\ s.code = 0 /\ s.stderr = ""

\* The mutant of attemptsRemain: one attempt too many.
attemptsRemain_OffByOne(a, maxAttempts) == a <= maxAttempts

\* attempts < maxAttempts
attemptsRemain(a, maxAttempts) == a < maxAttempts

\* The mutant of getCredentialsFailure: the first attempt's standard error.
getCredentialsFailure_First(s) ==
    [succeeded |-> FALSE,
     error |-> IF outcomes[1].present THEN outcomes[1].stderr
               ELSE "Unable to invoke gcloud CLI"]

getCredentialsFailure(s) ==
    [succeeded |-> FALSE,
     error |-> IF s.present THEN s.stderr ELSE "Unable to invoke gcloud CLI"]

getCredentialsSuccess == [succeeded |-> TRUE]

\* The mutant of configureClusterResult: the outer flag is always true.
configureClusterResult_AlwaysOk(clusterType, credsResult) ==
    [actionDescription |-> "configuring Kubernetes",
     result |-> [succeeded |-> TRUE,
                 result |-> [clusterType |-> clusterType,
                             gotCredentials |-> credsResult.succeeded,
                             credentialsError |-> Prop(credsResult, "error")],
                 error |-> <<>>]]

configureClusterResult(clusterType, credsResult) ==
    [actionDescription |-> "configuring Kubernetes",
     result |-> [succeeded |-> credsResult.succeeded,
                 result |-> [clusterType |-> clusterType,
                             gotCredentials |-> credsResult.succeeded,
                             credentialsError |-> Prop(credsResult, "error")],
                 error |-> <<>>]]

----------------------------------------------------------------------------
(* The state machine *)

Init ==
    /\ op = "none"
    /\ pc = "idle"
    /\ args = NoArgs
    /\ attempts = 0
    /\ sr = Absent
    /\ login = [succeeded |-> FALSE]
    /\ outstanding = 0
    /\ timers = 0
    /\ calls = <<>>
    /\ outcomes = <<>>
    /\ sleepLog = <<>>
    /\ ret = NoRet

Call(o, a, start) ==
    /\ op' = o
    /\ args' = a
    /\ pc' = start
    /\ UNCHANGED <<attempts, sr, login, outstanding, timers, calls, outcomes, sleepLog, ret>>

\* await context.shell.exec(cmd): the command is started and the task suspends.
Exec(cmd, wait) ==
    /\ outstanding' = outstanding + 1
    /\ calls' = Append(calls, cmd)
    /\ pc' = wait
    /\ UNCHANGED <<op, args, attempts, sr, login, timers, outcomes, sleepLog, ret>>

Finish(r) ==
    /\ ret' = r
    /\ pc' = "done"
    /\ UNCHANGED <<op, args, attempts, sr, login, outstanding, timers, calls, outcomes, sleepLog>>

CallGetProjectList ==
    /\ pc = "idle"
    /\ Call("getProjectList", NoArgs, "lp_exec")

CallSetProjectAsync ==
    /\ pc = "idle"
    /\ Call("setProjectAsync", NoArgs, "sp_exec")

CallGetClusterList ==
    /\ pc = "idle"
    /\ Call("getClusterList", NoArgs, "sp_exec")

CallListGkeLocations ==
    /\ pc = "idle"
    /\ Call("listGkeLocations", NoArgs, "ll_exec")

CallListVMSizes ==
    /\ pc = "idle"
    /\ Call("listVMSizes", NoArgs, "vm_exec")

CallWaitForCluster ==
    /\ pc = "idle"
    /\ Call("waitForCluster", NoArgs, "wfc_start")

\* options is any: the caller may pass an object without metadata.
CallCreateCluster ==
    /\ pc = "idle"
    /\ \E m \in BOOLEAN :
          Call("createCluster", [NoArgs EXCEPT !.hasMetadata = m], "sp_exec")

CallConfigureCluster ==
    /\ pc = "idle"
    /\ \E t \in {"GKE", "AKS"} :
          Call("configureCluster",
               [NoArgs EXCEPT !.clusterType = t, !.maxAttempts = ConfigureMaxAttempts],
               "gc_loop")

CallGetCredentials ==
    /\ pc = "idle"
    /\ \E m \in 0..MaxAttemptsArg :
          Call("getCredentials", [NoArgs EXCEPT !.maxAttempts = m], "gc_loop")

CallLocationDisplayNamesEx ==
    /\ pc = "idle"
    /\ \E production \in SeqsUpTo(RegionNames, MaxRegionList),
          preview \in SeqsUpTo(RegionNames, MaxRegionList),
          response \in SampleResponses :
          Call("locationDisplayNamesEx",
               [NoArgs EXCEPT !.production = production, !.preview = preview,
                              !.response = response],
               "ldn_run")

(* getProjectList / listProjectsAsync *)
ExecListProjects ==
    /\ pc = "lp_exec"
    /\ Exec("gcloud projects list", "lp_wait")

ReturnGetProjectList ==
    /\ pc = "lp_ret"
    /\ Finish(Returned(
           [actionDescription |-> "listing projects",
            result |-> fromShellJson(sr, "Unable to list Google projects",
                                     rawJson(sr.stdout))]))

(* setProjectAsync, called directly or as the first phase *)
ExecSetProject ==
    /\ pc = "sp_exec"
    /\ Exec("gcloud config set project", "sp_wait")

ReturnSetProject ==
    /\ pc = "sp_ret"
    /\ LET r == setProjectAsyncResult(sr)
       IN  IF op = "setProjectAsync"
           THEN /\ ret' = Returned(r)
                /\ pc' = "done"
                /\ UNCHANGED login
           ELSE /\ login' = r
                /\ pc' = IF op = "getClusterList" THEN "gcl_login" ELSE "cc_login"
                /\ UNCHANGED ret
    /\ UNCHANGED <<op, args, attempts, sr, outstanding, timers, calls, outcomes, sleepLog>>

(* getClusterList *)
LoginFailedGetClusterList ==
    /\ pc = "gcl_login"
    /\ failed(login)
    /\ Finish(Returned(
           [actionDescription |-> "logging into project",
            result |-> [succeeded |-> FALSE, error |-> login.error]]))

ExecListClusters ==
    /\ pc = "gcl_login"
    /\ ~failed(login)
    /\ Exec("gcloud container clusters list", "lc_wait")

ReturnGetClusterList ==
    /\ pc = "lc_ret"
    /\ Finish(Returned(
           [actionDescription |-> "listing clusters",
            result |-> fromShellJson(sr, "Unable to list Kubernetes clusters",
                                     rawJson(sr.stdout))]))

(* listGkeLocations / listLocations *)
ExecListLocations ==
    /\ pc = "ll_exec"
    /\ Exec("az account list-locations", "ll_wait")

ReturnListGkeLocations ==
    /\ pc = "ll_ret"
    /\ Finish(Returned(listGkeLocationsResult(sr)))

(* locationDisplayNamesEx on its own *)
RunLocationDisplayNamesEx ==
    /\ pc = "ldn_run"
    /\ Finish(Returned(
           locationDisplayNamesEx(args.production, args.preview,
               [locations |-> buildLocations(args.response, EmptyDictionary)])))

(* listVMSizes *)
ExecListVMSizes ==
    /\ pc = "vm_exec"
    /\ Exec("az vm list-sizes", "vm_wait")

ReturnListVMSizes ==
    /\ pc = "vm_ret"
    /\ Finish(Returned(
           fromShellJson(sr, "Unable to list VM sizes", vmSizesProcessor(sr.stdout))))

(* createCluster / execCreateClusterCmd *)
LoginFailedCreateCluster ==
    /\ pc = "cc_login"
    /\ ~login.succeeded
    /\ Finish(Returned([actionDescription |-> "logging into project", result |-> login]))

\* options.metadata.clusterName is read while the command line is built:
\* without metadata that is a TypeError, before any command is started, and
\* nothing between it and the caller catches it.
CreateClusterCmdThrows ==
    /\ pc = "cc_login"
    /\ login.succeeded
    /\ ~args.hasMetadata
    /\ Finish(Threw)

ExecCreateClusterCmd ==
    /\ pc = "cc_login"
    /\ login.succeeded
    /\ args.hasMetadata
    /\ Exec("gcloud container clusters create", "ccc_wait")

ReturnCreateCluster ==
    /\ pc = "ccc_ret"
    /\ Finish(Returned(
           [actionDescription |-> "creating cluster",
            result |-> fromShellExitCodeOnly(sr,
                           "Unable to call Gcloud CLI to create cluster")]))

(* waitForCluster *)
StartWait ==
    /\ pc = "wfc_start"
    /\ timers' = timers + 1
    /\ sleepLog' = Append(sleepLog, WaitForClusterMs)
    /\ pc' = "wfc_wait"
    /\ UNCHANGED <<op, args, attempts, sr, login, outstanding, calls, outcomes, ret>>

ReturnWaitForCluster ==
    /\ pc = "wfc_ret"
    /\ Finish(Returned([succeeded |-> TRUE, result |-> [stillWaiting |-> FALSE]]))

(* getCredentials, called directly or by configureCluster *)
GC_Attempt ==
    /\ pc = "gc_loop"
    /\ attempts' = attempts + 1
    /\ outstanding' = outstanding + 1
    /\ calls' = Append(calls, "gcloud container clusters get-credentials")
    /\ pc' = "gc_wait"
    /\ UNCHANGED <<op, args, sr, login, timers, outcomes, sleepLog, ret>>

GC_Return(credsResult) ==
    Finish(IF op = "configureCluster"
           THEN Returned(configureClusterResult(args.clusterType, credsResult))
           ELSE Returned(credsResult))

GC_Succeeded ==
    /\ pc = "gc_check"
    /\ shellSucceeded(sr)
    /\ GC_Return(getCredentialsSuccess)

\* The mutant of GC_Sleep: sleep(15000) without the await.
GC_Sleep_NoAwait ==
    /\ pc = "gc_check"
    /\ ~shellSucceeded(sr)
    /\ attemptsRemain(attempts, args.maxAttempts)
    /\ timers' = timers + 1
    /\ sleepLog' = Append(sleepLog, RetrySleepMs)
    /\ pc' = "gc_loop"
    /\ UNCHANGED <<op, args, attempts, sr, login, outstanding, calls, outcomes, ret>>

\* await sleep(15000)
GC_Sleep ==
    /\ pc = "gc_check"
    /\ ~shellSucceeded(sr)
    /\ attemptsRemain(attempts, args.maxAttempts)
    /\ timers' = timers + 1
    /\ sleepLog' = Append(sleepLog, RetrySleepMs)
    /\ pc' = "gc_sleep"
    /\ UNCHANGED <<op, args, attempts, sr, login, outstanding, calls, outcomes, ret>>

GC_Exhausted ==
    /\ pc = "gc_check"
    /\ ~shellSucceeded(sr)
    /\ ~attemptsRemain(attempts, args.maxAttempts)
    /\ GC_Return(getCredentialsFailure(sr))

(* The environment *)

\* Where the task resumes once the command it awaits has completed.
AfterExec ==
    [lp_wait |-> "lp_ret", sp_wait |-> "sp_ret", lc_wait |-> "lc_ret",
     ll_wait |-> "ll_ret", vm_wait |-> "vm_ret", ccc_wait |-> "ccc_ret",
     gc_wait |-> "gc_check"]

\* What a command can produce.
ResultsOf(cmd) ==
    CASE cmd = "gcloud projects list" -> ShellResults(ProjectStdouts)
      [] cmd = "gcloud config set project" -> ShellResults({NoOut})
      [] cmd = "gcloud container clusters list" -> ShellResults(ClusterStdouts)
      [] cmd = "az account list-locations" -> ShellResults(LocationStdouts)
      [] cmd = "az vm list-sizes" -> ShellResults(VMStdouts)
      [] cmd = "gcloud container clusters create" -> ShellResults({NoOut})
      [] cmd = "gcloud container clusters get-credentials" -> CredentialResults

\* The command that is outstanding: the one started last.
Awaited == calls[Len(calls)]

ShellComplete ==
    /\ outstanding > 0
    /\ \E r \in ResultsOf(Awaited) :
        /\ outcomes' = Append(outcomes, r)
        /\ IF pc \in DOMAIN AfterExec
           THEN sr' = r /\ pc' = AfterExec[pc]
           ELSE UNCHANGED <<sr, pc>>
    /\ outstanding' = outstanding - 1
    /\ UNCHANGED <<op, args, attempts, login, timers, calls, sleepLog, ret>>

SleepComplete ==
    /\ timers > 0
    /\ timers' = timers - 1
    /\ pc' = CASE pc = "gc_sleep" -> "gc_loop"
               [] pc = "wfc_wait" -> "wfc_ret"
               [] OTHER -> pc
    /\ UNCHANGED <<op, args, attempts, sr, login, outstanding, calls, outcomes, sleepLog, ret>>

Next ==
    \/ CallGetProjectList
    \/ CallSetProjectAsync
    \/ CallGetClusterList
    \/ CallListGkeLocations
    \/ CallListVMSizes
    \/ CallWaitForCluster
    \/ CallCreateCluster
    \/ CallConfigureCluster
    \/ CallGetCredentials
    \/ CallLocationDisplayNamesEx
    \/ ExecListProjects
    \/ ReturnGetProjectList
    \/ ExecSetProject
    \/ ReturnSetProject
    \/ LoginFailedGetClusterList
    \/ ExecListClusters
    \/ ReturnGetClusterList
    \/ ExecListLocations
    \/ ReturnListGkeLocations
    \/ RunLocationDisplayNamesEx
    \/ ExecListVMSizes
    \/ ReturnListVMSizes
    \/ LoginFailedCreateCluster
    \/ CreateClusterCmdThrows
    \/ ExecCreateClusterCmd
    \/ ReturnCreateCluster
    \/ StartWait
    \/ ReturnWaitForCluster
    \/ GC_Attempt
    \/ GC_Succeeded
    \/ GC_Sleep
    \/ GC_Exhausted
    \/ ShellComplete
    \/ SleepComplete

Spec == Init /\ [][Next]_vars

\* Every shell invocation and every sleep eventually completes, and a task
\* that can run does run.
FairSpec == Spec /\ WF_vars(Next)

----------------------------------------------------------------------------
(* Properties *)

Done == pc = "done"
ReturnedValue == ret.status = "returned"

\* An attempt that succeeded: the subprocess ran, exit code 0, empty stderr.
CleanExit(r) == r.present /\ r.code = 0 /\ r.stderr = ""
NoCleanExit(rs) == \A i \in 1..Len(rs) : ~CleanExit(rs[i])
Last(s) == s[Len(s)]
Front(s) == SubSeq(s, 1, Len(s) - 1)

GetCredentialsCmd == "gcloud container clusters get-credentials"
SetProjectCmd == "gcloud config set project"

(* C1: getCredentials with maxAttempts >= 1 returns success after exactly k
   invocations and k-1 sleeps of 15 s when attempt k <= maxAttempts is the
   first that succeeds, and failure after exactly maxAttempts invocations
   and maxAttempts-1 sleeps when none of them succeeds; no sleep follows the
   last attempt. *)
C1_RetryCounts ==
    (op = "getCredentials" /\ args.maxAttempts >= 1 /\ Done) =>
        LET n == Len(outcomes) IN
        /\ ReturnedValue
        /\ n >= 1
        /\ calls = [i \in 1..n |-> GetCredentialsCmd]
        /\ \A i \in 1..Len(sleepLog) : sleepLog[i] = 15000
        /\ timers = 0
        /\ outstanding = 0
        /\ NoCleanExit(Front(outcomes))
        /\ IF CleanExit(Last(outcomes))
           THEN /\ ret.value.succeeded
                /\ n <= args.maxAttempts
                /\ Len(sleepLog) = n - 1
           ELSE /\ ~ret.value.succeeded
                /\ n = args.maxAttempts
                /\ Len(sleepLog) = args.maxAttempts - 1

C1_Witness ==
    /\ op = "getCredentials" /\ args.maxAttempts = 5 /\ Done
    /\ ret.value.succeeded
    /\ Len(calls) = 5
    /\ Len(sleepLog) = 4

TwoPhase == op \in {"getClusterList", "createCluster"}
SecondCmd ==
    IF op = "getClusterList" THEN "gcloud container clusters list"
    ELSE "gcloud container clusters create"
SecondDescription ==
    IF op = "getClusterList" THEN "listing clusters" ELSE "creating cluster"

(* C2: in getClusterList and createCluster the list / create command is
   invoked only after set project has been invoked and has succeeded; when
   set project fails there is exactly one shell invocation and the result is
   "logging into project" with set project's error; when it succeeds exactly
   one list / create invocation follows and the description is "listing
   clusters" / "creating cluster". *)
C2_ShortCircuit ==
    TwoPhase =>
        /\ \A i \in 1..Len(calls) :
              calls[i] = SecondCmd =>
                  i = 2 /\ calls[1] = SetProjectCmd /\ login.succeeded
        /\ Done =>
              IF login.succeeded
              THEN /\ calls = <<SetProjectCmd, SecondCmd>>
                   /\ ReturnedValue
                   /\ ret.value.actionDescription = SecondDescription
              ELSE /\ calls = <<SetProjectCmd>>
                   /\ ReturnedValue
                   /\ ret.value.actionDescription = "logging into project"
                   /\ ~ret.value.result.succeeded
                   /\ ret.value.result.error = login.error

\* The same statement for the calls whose options carry metadata: it holds,
\* so the statement fails only where execCreateClusterCmd throws.
ShortCircuitWithMetadata ==
    (op = "createCluster" => args.hasMetadata) => C2_ShortCircuit

(* C3: every public operation completes by returning a tagged success /
   failure value, for every shell outcome and every input; none completes by
   raising an exception or rejecting. *)
C3_NoThrow == Done => ReturnedValue

(* C4: setProjectAsync reports success exactly when the set-project exit
   code is 0 and its stderr is empty; getClusterList and createCluster take
   the "logging into project" failure branch whenever set project did not
   exit cleanly, also with exit code 0 and a non-empty stderr. *)
C4_SetProjectStrict ==
    /\ (op = "setProjectAsync" /\ Done) =>
           /\ ReturnedValue
           /\ ret.value.succeeded <=> CleanExit(outcomes[1])
    /\ (TwoPhase /\ Done /\ ~CleanExit(outcomes[1])) =>
           /\ ReturnedValue
           /\ ret.value.actionDescription = "logging into project"
           /\ ~ret.value.result.succeeded
           /\ Len(calls) = 1
    /\ (TwoPhase /\ Done /\ CleanExit(outcomes[1]) /\ ReturnedValue) =>
           ret.value.actionDescription # "logging into project"

C4_Witness ==
    /\ op = "createCluster" /\ Done
    /\ outcomes[1].present /\ outcomes[1].code = 0 /\ outcomes[1].stderr = "e1"
    /\ ret.value.actionDescription = "logging into project"

(* C5: a failure returned by getCredentials carries the stderr text of the
   last attempt made, or "Unable to invoke gcloud CLI" when that attempt's
   subprocess could not be invoked; a success carries no error. *)
C5_LastError ==
    (op = "getCredentials" /\ Done) =>
        IF ret.value.succeeded
        THEN "error" \notin DOMAIN ret.value
        ELSE ret.value.error =
                 IF Last(outcomes).present THEN Last(outcomes).stderr
                 ELSE "Unable to invoke gcloud CLI"

C5_Witness ==
    /\ op = "getCredentials" /\ Done
    /\ ~ret.value.succeeded
    /\ Len(outcomes) >= 2
    /\ outcomes[1].present /\ outcomes[1].stderr = "e1"
    /\ ret.value.error = "e2"

(* C6: configureCluster makes at most 5 attempts and returns an ActionResult
   whose success flag and gotCredentials are true iff some attempt exited
   cleanly, whose clusterType is the input and whose credentialsError is the
   error of the credential fetch. *)
C6_ConfigureMirrors ==
    (op = "configureCluster" /\ Done) =>
        LET fetched == ~NoCleanExit(outcomes) IN
        /\ ReturnedValue
        /\ Len(calls) <= 5
        /\ Len(outcomes) = Len(calls)
        /\ ret.value.result.succeeded = fetched
        /\ ret.value.result.result.gotCredentials = fetched
        /\ ret.value.result.result.clusterType = args.clusterType
        /\ ret.value.result.result.credentialsError =
               IF fetched THEN Undefined
               ELSE IF Last(outcomes).present THEN Last(outcomes).stderr
                    ELSE "Unable to invoke gcloud CLI"

C6_Witness ==
    /\ op = "configureCluster" /\ Done
    /\ args.clusterType = "AKS"
    /\ ~ret.value.result.succeeded
    /\ Len(calls) = 5
    /\ ret.value.result.result.credentialsError = "e1"

\* The fetched mapping's value for id: that of the last entry naming it.
Fetched(items, id) ==
    LET S == {i \in 1..Len(items) : items[i].name = id}
    IN  IF S = {} THEN Undefined
        ELSE items[CHOOSE i \in S : \A j \in S : j <= i].displayName

ExpectedLocations(production, preview, items) ==
    [i \in 1..(Len(production) + Len(preview)) |->
        IF i <= Len(production)
        THEN [displayName |-> Fetched(items, production[i]), isPreview |-> FALSE]
        ELSE [displayName |-> Fetched(items, preview[i - Len(production)]),
              isPreview |-> TRUE]]

RegionsListed == CleanExit(outcomes[1]) /\ outcomes[1].stdout.kind = "array"
EastUsOnly == <<[name |-> "eastus", displayName |-> "East US"]>>

C7_Propagates ==
    (op = "listGkeLocations" /\ Done) =>
        /\ ReturnedValue
        /\ IF RegionsListed
           THEN /\ ret.value.succeeded
                /\ ret.value.result =
                       ExpectedLocations(productionRegions, <<>>, outcomes[1].stdout.items)
           ELSE /\ ~ret.value.succeeded
                /\ ret.value.error =
                       fromShellJson(outcomes[1], "Unable to list Google regions",
                                     locationsProcessor(outcomes[1].stdout)).error

C7_ProductionThenPreview ==
    (op = "locationDisplayNamesEx" /\ Done) =>
        ret.value = ExpectedLocations(args.production, args.preview, args.response)

(* C7 as stated: listGkeLocations propagates a failure of listing regions,
   and otherwise returns one ServiceLocation per production identifier
   followed by one per preview identifier, undefined display names included;
   given the mapping {"eastus": "East US"} it returns the single
   ServiceLocation {displayName: "East US", isPreview: false}. *)
C7_Original ==
    /\ C7_Propagates
    /\ C7_ProductionThenPreview
    /\ (op = "listGkeLocations" /\ Done /\ RegionsListed
            /\ outcomes[1].stdout.items = EastUsOnly) =>
           ret.value.result = <<[displayName |-> "East US", isPreview |-> FALSE]>>

(* C7 as amended: as above, but given the mapping {"eastus": "East US"}
   listGkeLocations returns one ServiceLocation for each of the 19 hard-wired
   production identifiers, the one for "eastus" with displayName "East US"
   and the other 18 with an undefined displayName; the single ServiceLocation
   is what locationDisplayNamesEx returns for the production list ["eastus"]
   and an empty preview list. *)
C7_Amended ==
    /\ C7_Propagates
    /\ C7_ProductionThenPreview
    /\ (op = "listGkeLocations" /\ Done /\ RegionsListed
            /\ outcomes[1].stdout.items = EastUsOnly) =>
           /\ Len(ret.value.result) = 19
           /\ \A i \in 1..19 :
                 ret.value.result[i] =
                     [displayName |-> IF productionRegions[i] = "eastus"
                                      THEN "East US" ELSE Undefined,
                      isPreview |-> FALSE]
    /\ (op = "locationDisplayNamesEx" /\ Done /\ args.production = <<"eastus">>
            /\ args.preview = <<>> /\ args.response = EastUsOnly) =>
           ret.value = <<[displayName |-> "East US", isPreview |-> FALSE]>>

C7_Witness ==
    /\ op = "listGkeLocations" /\ Done /\ RegionsListed
    /\ outcomes[1].stdout.items = EastUsOnly
    /\ ret.value.succeeded
    /\ Len(ret.value.result) = 19
    /\ ret.value.result[1].displayName = Undefined

HasBasicPrefix(n) ==
    /\ Len(n) >= 6
    /\ n[1] = "B" /\ n[2] = "a" /\ n[3] = "s" /\ n[4] = "i" /\ n[5] = "c" /\ n[6] = "_"
NotBasic(n) == ~HasBasicPrefix(n)
VMItems == outcomes[1].stdout.items
VMWellFormed ==
    /\ outcomes[1].stdout.kind = "array"
    /\ \A i \in 1..Len(VMItems) : VMItems[i].hasName

(* C8: listVMSizes never returns a name that starts with "Basic_"; for a
   well-formed array of objects with a name the success value is exactly the
   input names, in input order, without those that start with "Basic_". *)
C8_NoBasicSizes ==
    (op = "listVMSizes" /\ Done) =>
        /\ ReturnedValue
        /\ ret.value.succeeded =>
               /\ \A i \in 1..Len(ret.value.result) : NotBasic(ret.value.result[i])
               /\ VMWellFormed
        /\ (CleanExit(outcomes[1]) /\ VMWellFormed) =>
               /\ ret.value.succeeded
               /\ ret.value.result =
                      SelectSeq([i \in 1..Len(VMItems) |-> VMItems[i].name], NotBasic)

C8_Witness ==
    /\ op = "listVMSizes" /\ Done
    /\ ret.value.succeeded
    /\ Len(VMItems) = 2
    /\ HasBasicPrefix(VMItems[1].name)
    /\ VMItems[2].name = <<"S", "_", "B", "a", "s", "i", "c", "_">>
    /\ ret.value.result = <<VMItems[2].name>>

CredentialLoop == op \in {"getCredentials", "configureCluster"}
FetchSucceeded ==
    IF op = "getCredentials" THEN ret.value.succeeded ELSE ret.value.result.succeeded

C9_OnlySuccessOrExhaustion ==
    CredentialLoop =>
        /\ NoCleanExit(SubSeq(outcomes, 1, Len(calls) - 1))
        /\ Done =>
              /\ ReturnedValue
              /\ outstanding = 0 /\ timers = 0
              /\ Len(outcomes) = Len(calls)
              /\ \/ CleanExit(Last(outcomes)) /\ FetchSucceeded
                 \/ /\ ~CleanExit(Last(outcomes))
                    /\ ~FetchSucceeded
                    /\ Len(calls) >= args.maxAttempts

(* C9: the getCredentials loop always ends, and ends only directly after an
   attempt that succeeded or after the attempt at which the attempt count is
   no longer below maxAttempts: no failure while attempts remain, no attempt
   after a success. *)
C9_Terminates ==
    /\ [] C9_OnlySuccessOrExhaustion
    /\ CredentialLoop ~> Done

C9_Witness ==
    /\ op = "getCredentials" /\ Done
    /\ args.maxAttempts = 3
    /\ ~ret.value.succeeded
    /\ Len(calls) = 3

(* C10: within one getCredentials call at most one get-credentials
   subprocess is outstanding, no subprocess is outstanding during a sleep,
   and attempt n+1 is started only after the result of attempt n has been
   received and the sleep that follows it has completed. *)
C10_Sequential ==
    CredentialLoop =>
        /\ outstanding <= 1
        /\ timers <= 1
        /\ ~(outstanding > 0 /\ timers > 0)
        /\ Len(outcomes) = Len(calls) - outstanding
        /\ Len(calls) >= 1 => Len(sleepLog) - timers >= Len(calls) - 1
        /\ Len(sleepLog) <= Len(outcomes)

C10_Witness ==
    /\ op = "getCredentials"
    /\ outstanding = 1
    /\ Len(calls) = 3
    /\ Len(sleepLog) = 2
    /\ timers = 0

====
